---- MODULE Spec2Model ----
(***************************************************************************)
(* alogfmt: the logfmt serializer of src/src/encode.rs as a state machine. *)
(*                                                                         *)
(* A text (&str) is a sequence of Unicode scalar values, the sink holds    *)
(* bytes, and every slice the code takes of a text is a slice of its UTF-8 *)
(* bytes, at the byte offsets the code computes (beg, end).                *)
(***************************************************************************)
EXTENDS Integers, Sequences, FiniteSets, TLC

(* ------------------------------------------------------------------ *)
(* Bounds of the model                                                 *)
(* ------------------------------------------------------------------ *)

\* longest text handed to write_ident / write_val by the text harness
MaxLen == 3
\* most children (elements, fields, entries) of one container
MaxWidth == 2
\* most documents serialized through one Serializer
MaxDocs == 2
\* largest capacity of a fixed-size sink (a sink that fills up and then fails)
MaxCap == 3

(* ------------------------------------------------------------------ *)
(* Characters and UTF-8                                                *)
(* ------------------------------------------------------------------ *)

\* ch.encode_utf8(&mut buf).as_bytes(): the UTF-8 bytes of one scalar value
encode_utf8(c) ==
    IF c < 128 THEN <<c>>
    ELSE IF c < 2048 THEN <<192 + (c \div 64), 128 + (c % 64)>>
    ELSE IF c < 65536 THEN
        <<224 + (c \div 4096), 128 + ((c \div 64) % 64), 128 + (c % 64)>>
    ELSE <<240 + (c \div 262144), 128 + ((c \div 4096) % 64),
           128 + ((c \div 64) % 64), 128 + (c % 64)>>

\* ch.len_utf8()
len_utf8(c) == Len(encode_utf8(c))

\* str::as_bytes(): the UTF-8 bytes of a text
RECURSIVE as_bytes(_)
as_bytes(s) ==
    IF s = <<>> THEN <<>> ELSE encode_utf8(Head(s)) \o as_bytes(Tail(s))

\* val[beg..end].as_bytes(): the bytes of a text from byte offset beg to end
slice(s, beg, end) == SubSeq(as_bytes(s), beg + 1, end)

\* String::from_utf8_unchecked on bytes the serializer wrote: the text they encode
RECURSIVE from_utf8_unchecked(_)
from_utf8_unchecked(b) ==
    IF b = <<>> THEN <<>>
    ELSE IF b[1] < 128 THEN <<b[1]>> \o from_utf8_unchecked(Tail(b))
    ELSE IF b[1] < 224 THEN
        <<(b[1] - 192) * 64 + (b[2] - 128)>> \o from_utf8_unchecked(SubSeq(b, 3, Len(b)))
    ELSE IF b[1] < 240 THEN
        <<(b[1] - 224) * 4096 + (b[2] - 128) * 64 + (b[3] - 128)>>
            \o from_utf8_unchecked(SubSeq(b, 4, Len(b)))
    ELSE
        <<(b[1] - 240) * 262144 + (b[2] - 128) * 4096 + (b[3] - 128) * 64 + (b[4] - 128)>>
            \o from_utf8_unchecked(SubSeq(b, 5, Len(b)))

\* char::is_control(): general category Cc
is_control(c) == c <= 31 \/ (c >= 127 /\ c <= 159)

\* base16::encode_byte_u: two uppercase hex digits of one byte
hex_digit_u(n) == IF n < 10 THEN 48 + n ELSE 55 + n
encode_byte_u(b) == <<hex_digit_u(b \div 16), hex_digit_u(b % 16)>>

\* itoa::Buffer::format: the decimal digits of a non-negative integer
RECURSIVE itoa(_)
itoa(n) == IF n < 10 THEN <<48 + n>> ELSE itoa(n \div 10) \o <<48 + (n % 10)>>

\* as_control_picture: U+2400 + code for C0 controls and space, U+2421 for DEL
as_control_picture(c) ==
    IF c <= 32 THEN 9216 + c ELSE IF c = 127 THEN 9249 ELSE -1

(* ------------------------------------------------------------------ *)
(* The sink and the Serializer                                         *)
(* ------------------------------------------------------------------ *)

\* A Serializer { w, ns, have_written }. The sink w is either growable (a Vec, which
\* never fails) or a fixed-size buffer with room bytes left, whose write_all stores
\* what fits and then fails.
new(fixed, room) ==
    [w |-> <<>>, fixed |-> fixed, room |-> room, ns |-> <<>>, have_written |-> FALSE]

\* the outcome of an operation: the serializer after it and its Result
Out(s, r) == [s |-> s, r |-> r]

\* self.w.write_all(bytes)?: Ok, or WriteError after storing the bytes that fit
write_all(s, bytes) ==
    IF s.fixed /\ Len(bytes) > s.room
    THEN Out([s EXCEPT !.w = @ \o SubSeq(bytes, 1, s.room), !.room = 0], "WriteError")
    ELSE Out([s EXCEPT !.w = @ \o bytes,
                       !.room = IF s.fixed THEN @ - Len(bytes) ELSE @], "Ok")

\* o is the outcome so far; the next write happens only if no `?` has returned yet
then_write(o, bytes) == IF o.r = "Ok" THEN write_all(o.s, bytes) ELSE o

\* mutant of reset: the flag survives
reset_keeps_have_written(s) == [s EXCEPT !.ns = <<>>]

\* Serializer::reset
reset(s) == [s EXCEPT !.ns = <<>>, !.have_written = FALSE]

\* Serializer::next
next(s) ==
    LET o == write_all(s, <<10>>)
    IN  IF o.r = "Ok" THEN Out(reset(o.s), "Ok") ELSE o

\* Serializer::enter_ns
enter_ns(s, name) == [s EXCEPT !.ns = Append(@, name)]

\* Serializer::leave_ns (the caller checks the panic case, ns empty)
leave_ns(s) == [s EXCEPT !.ns = SubSeq(@, 1, Len(@) - 1)]

\* mutant of valid_in_ident: `>=` for `>`
valid_in_ident_allows_space(c) == c >= 32 /\ c # 61 /\ c # 34 /\ ~is_control(c)

\* Serializer::valid_in_ident
valid_in_ident(c) == c > 32 /\ c # 61 /\ c # 34 /\ ~is_control(c)

\* the inner loop of write_ident: `%` and two hex digits for each byte of the char
RECURSIVE percent_bytes(_, _)
percent_bytes(o, bs) ==
    IF bs = <<>> \/ o.r # "Ok" THEN o
    ELSE percent_bytes(
            then_write(then_write(o, <<37>>), encode_byte_u(Head(bs))), Tail(bs))

\* the `for ch in ident.chars()` loop of write_ident from the i-th character on,
\* and the write of the last run after it
RECURSIVE write_ident_loop(_, _, _, _, _)
write_ident_loop(o, ident, i, beg, end) ==
    IF o.r # "Ok" THEN o
    ELSE IF i > Len(ident) THEN
        (IF end - beg > 0 THEN then_write(o, slice(ident, beg, end)) ELSE o)
    ELSE IF valid_in_ident(ident[i]) THEN
        write_ident_loop(o, ident, i + 1, beg, end + len_utf8(ident[i]))
    ELSE
        LET o1 == IF end - beg > 0 THEN then_write(o, slice(ident, beg, end)) ELSE o
            o2 == percent_bytes(o1, encode_utf8(ident[i]))
            e  == end + len_utf8(ident[i])
        IN  write_ident_loop(o2, ident, i + 1, e, e)

\* mutant of write_ident: no check for the empty identifier
write_ident_accepts_empty(s, ident) == write_ident_loop(Out(s, "Ok"), ident, 1, 0, 0)

\* Serializer::write_ident
write_ident(s, ident) ==
    IF ident = <<>> THEN Out(s, "EmptyIdentifier")
    ELSE write_ident_loop(Out(s, "Ok"), ident, 1, 0, 0)

\* Serializer::valid_in_string
valid_in_string(c) == c >= 32 /\ c # 34 /\ c # 92 /\ c # 127

\* mutant of is_valid_escape: no pair counts as already escaped
is_valid_escape_never(c) == c # c

\* mutant of is_valid_escape: the quote is missing from the list
is_valid_escape_without_quote(c) == c \in {110, 48, 116, 114, 92, 120, 117}

\* Serializer::is_valid_escape: n 0 t r \ " x u
is_valid_escape(c) == c \in {110, 48, 116, 114, 92, 34, 120, 117}

\* Serializer::write_escape: the match arms in order
escape_bytes(c) ==
    IF c = 0 THEN <<92, 48>>
    ELSE IF c = 10 THEN <<92, 110>>
    ELSE IF c = 9 THEN <<92, 116>>
    ELSE IF c = 13 THEN <<92, 114>>
    ELSE IF c <= 31 \/ c = 127 THEN encode_utf8(as_control_picture(c))
    ELSE IF c = 92 THEN <<92, 92>>
    ELSE IF c = 34 THEN <<92, 34>>
    ELSE encode_utf8(c)
write_escape(o, c) == then_write(o, escape_bytes(c))

\* the `while let Some(ch) = iter.next()` loop of write_val from the i-th character
\* on, the write of the last run and the closing quote
RECURSIVE write_val_loop(_, _, _, _, _)
write_val_loop(o, val, i, beg, end) ==
    IF o.r # "Ok" THEN o
    ELSE IF i > Len(val) THEN
        then_write(IF end - beg > 0 THEN then_write(o, slice(val, beg, end)) ELSE o,
                   <<34>>)
    ELSE IF valid_in_string(val[i]) THEN
        write_val_loop(o, val, i + 1, beg, end + len_utf8(val[i]))
    ELSE IF val[i] = 92 /\ i + 1 <= Len(val) /\ is_valid_escape(val[i + 1]) THEN
        write_val_loop(o, val, i + 2, beg,
                       end + len_utf8(val[i]) + len_utf8(val[i + 1]))
    ELSE
        LET o1 == IF end - beg > 0 THEN then_write(o, slice(val, beg, end)) ELSE o
            o2 == write_escape(o1, val[i])
            e  == end + len_utf8(val[i])
        IN  write_val_loop(o2, val, i + 1, e, e)

\* mutant of write_val: no unquoted form
write_val_always_quotes(s, val) ==
    IF val = <<>> THEN Out(s, "Ok")
    ELSE write_val_loop(write_all(s, <<34>>), val, 1, 0, 0)

\* Serializer::write_val
write_val(s, val) ==
    IF val = <<>> THEN Out(s, "Ok")
    ELSE IF \A i \in 1..Len(val) : valid_in_ident(val[i]) THEN write_ident(s, val)
    ELSE write_val_loop(write_all(s, <<34>>), val, 1, 0, 0)

\* the `for (idx, ns) in self.ns.iter().enumerate()` loop of write_key
RECURSIVE write_key_loop(_, _)
write_key_loop(o, idx) ==
    IF o.r # "Ok" \/ idx > Len(o.s.ns) THEN o
    ELSE LET o1 == write_ident(o.s, o.s.ns[idx])
             o2 == IF idx < Len(o.s.ns) THEN then_write(o1, <<46>>) ELSE o1
         IN  write_key_loop(o2, idx + 1)

\* mutant of write_key: the space is written before the first token too
write_key_space_first(s) ==
    LET o0 == write_all([s EXCEPT !.have_written = TRUE], <<32>>)
        o1 == IF o0.r = "Ok" THEN write_key_loop(o0, 1) ELSE o0
    IN  [s |-> o1.s, r |-> o1.r, key |-> o1.r = "Ok" /\ s.ns # <<>>]

\* mutant of write_key: the flag follows the outcome of the write of the space
write_key_flag_follows_write(s) ==
    LET o0 == IF s.have_written THEN write_all(s, <<32>>)
              ELSE Out([s EXCEPT !.have_written = TRUE], "Ok")
        o1 == IF o0.r = "Ok" THEN write_key_loop(o0, 1)
              ELSE Out([o0.s EXCEPT !.have_written = FALSE], o0.r)
    IN  [s |-> o1.s, r |-> o1.r, key |-> o1.r = "Ok" /\ s.ns # <<>>]

\* Serializer::write_key: the outcome and, when Ok, whether a key was written
write_key(s) ==
    LET o0 == IF s.have_written THEN write_all(s, <<32>>)
              ELSE Out([s EXCEPT !.have_written = TRUE], "Ok")
        o1 == IF o0.r = "Ok" THEN write_key_loop(o0, 1) ELSE o0
    IN  [s |-> o1.s, r |-> o1.r, key |-> o1.r = "Ok" /\ s.ns # <<>>]

\* `if self.write_key()? { self.w.write_all(b"=")?; }`
write_key_eq(s) ==
    LET k == write_key(s)
    IN  IF k.r = "Ok" /\ k.key THEN write_all(k.s, <<61>>) ELSE Out(k.s, k.r)

\* mutant of serialize_bool: the key is written for false too
serialize_bool_writes_false(s, v) == LET k == write_key(s) IN Out(k.s, k.r)

\* ser::Serializer::serialize_bool
serialize_bool(s, v) ==
    IF v THEN LET k == write_key(s) IN Out(k.s, k.r) ELSE Out(s, "Ok")

\* ser::Serializer::serialize_i8 .. serialize_u128 (one body for every width)
serialize_i64(s, v) ==
    then_write(write_key_eq(s), IF v < 0 THEN <<45>> \o itoa(-v) ELSE itoa(v))

\* ser::Serializer::serialize_str
serialize_str(s, v) ==
    LET o == write_key_eq(s) IN IF o.r = "Ok" THEN write_val(o.s, v) ELSE o

\* ser::Serializer::serialize_none
serialize_none(s) == then_write(write_key_eq(s), <<110, 117, 108, 108>>)

\* mutant of serialize_unit: the key alone, as serialize_bool(true)
serialize_unit_key_only(s) == LET k == write_key(s) IN Out(k.s, k.r)

\* ser::Serializer::serialize_unit, serialize_unit_struct
serialize_unit(s) == write_key_eq(s)

\* ser::Serializer::serialize_unit_variant
serialize_unit_variant(s, name, variant) ==
    serialize_str(s, name \o <<58, 58>> \o variant)

(* ------------------------------------------------------------------ *)
(* Values: what the Serialize implementations of the caller describe   *)
(* ------------------------------------------------------------------ *)

VBool(b) == [k |-> "bool", b |-> b]
VInt(n) == [k |-> "int", n |-> n]
VStr(s) == [k |-> "str", s |-> s]
VNone == [k |-> "none"]
VUnit == [k |-> "unit"]
VUnitVariant(name, variant) == [k |-> "unit_variant", name |-> name, variant |-> variant]
\* a value whose Serialize implementation returns Err(ser::Error::custom(..))
VErr == [k |-> "error"]
\* Some(v), a newtype struct or a newtype variant around v
VNewtype(via, v) == [k |-> "newtype", via |-> via, inner |-> v]
\* a sequence, tuple, tuple struct or tuple variant
VSeq(items) == [k |-> "seq", items |-> items]
\* a struct or struct variant; a field is served by serialize_field or skip_field
Field(key, v) == [key |-> key, skip |-> FALSE, value |-> v]
Skipped(key) == [key |-> key, skip |-> TRUE, value |-> VUnit]
VStruct(fields) == [k |-> "struct", fields |-> fields]
Entry(key, v) == [key |-> key, value |-> v]
VMap(entries) == [k |-> "map", entries |-> entries]

\* the children of a container value
Children(v) ==
    IF v.k = "seq" THEN v.items
    ELSE IF v.k = "struct" THEN v.fields
    ELSE IF v.k = "map" THEN v.entries
    ELSE <<>>

\* all sequences of at most n members of S
UpTo(S, n) == UNION {[1..m -> S] : m \in 0..n}

TxtA == <<97>>
TxtB == <<98>>
TxtAB == <<97, 32, 98>>

(* ------------------------------------------------------------------ *)
(* The documents the model serializes                                  *)
(* ------------------------------------------------------------------ *)

\* every kind of leaf: a key alone, nothing, key=value, key=, a failure
Leaves == {VBool(TRUE), VBool(FALSE), VInt(7), VStr(TxtAB), VUnit, VErr}
Scalars ==
    Leaves \cup {VNone, VStr(<<>>), VStr(TxtA), VStr(TxtAB), VInt(33), VInt(-4),
                 VUnitVariant(<<69>>, <<86>>)}
\* fields: a plain name, an empty name, a name that needs percent-encoding, a skip
Fields ==
    {Field(TxtA, VStr(TxtAB)), Field(TxtA, VBool(TRUE)), Field(TxtB, VBool(FALSE)),
     Field(<<>>, VBool(TRUE)), Field(<<>>, VBool(FALSE)), Field(TxtAB, VUnit),
     Skipped(TxtB)}
\* entries: keys that flatten to a number, to nothing, to a quoted text, or fail
Entries ==
    {Entry(VInt(33), VBool(TRUE)), Entry(VInt(33), VBool(FALSE)),
     Entry(VInt(33), VErr), Entry(VStr(<<>>), VInt(7)), Entry(VStr(<<>>), VBool(FALSE)),
     Entry(VStr(TxtAB), VUnit), Entry(VErr, VInt(7))}
FlatSeqs == {VSeq(c) : c \in UpTo(Leaves, MaxWidth)}
FlatStructs == {VStruct(c) : c \in UpTo(Fields, MaxWidth)}
FlatMaps == {VMap(c) : c \in UpTo(Entries, MaxWidth)}
\* children of the nested containers
Kids ==
    {VInt(7), VSeq(<<>>), VSeq(<<VBool(TRUE), VBool(FALSE)>>),
     VStruct(<<Field(TxtA, VInt(7)), Field(<<>>, VNone)>>),
     VMap(<<Entry(VInt(33), VBool(TRUE)), Entry(VInt(34), VErr)>>)}
Nested ==
    {VSeq(c) : c \in UpTo(Kids, MaxWidth)}
    \cup {VStruct([j \in DOMAIN c |-> Field(TxtA, c[j])]) : c \in UpTo(Kids, MaxWidth)}
    \cup {VMap([j \in DOMAIN c |-> Entry(VInt(33), c[j])]) : c \in UpTo(Kids, MaxWidth)}
\* more kinds of map key, and the wrappers
Special ==
    {VMap(<<Entry(key, v)>>) :
        key \in {VBool(TRUE), VUnit, VSeq(<<>>), VSeq(<<VInt(7)>>), VStr(<<34>>),
                 VSeq(<<VInt(7), VInt(7)>>), VMap(<<Entry(VInt(7), VInt(7))>>)},
        v \in {VBool(TRUE), VBool(FALSE), VInt(7)}}
    \cup {VNewtype(via, v) :
            via \in {"some", "newtype_struct", "newtype_variant"},
            v \in {VInt(7), VBool(FALSE), VErr, VSeq(<<VInt(7)>>)}}
    \cup {VStruct(<<Field(TxtA, VNewtype("newtype_variant", VInt(7))),
                    Field(TxtB, VNewtype("some", VStr(TxtAB)))>>)}
\* MyStruct of tests::serialize_struct, with shorter texts
MyStruct ==
    VStruct(<<Field(<<109>>, VStr(TxtAB)), Field(<<105>>, VInt(3829)),
              Field(<<101>>, VUnitVariant(<<69>>, <<86>>)),
              Field(<<110>>, VSeq(<<VInt(1), VInt(2)>>)),
              Field(<<112>>, VMap(<<Entry(VInt(33), VBool(TRUE)),
                                    Entry(VInt(34), VBool(FALSE))>>))>>)
\* nums of MyStruct, long enough for an index of two digits; every other element
\* emits no token
Nums == VSeq([j \in 1..11 |-> VBool(j % 2 = 0)])
Docs ==
    Scalars \cup FlatSeqs \cup FlatStructs \cup FlatMaps \cup Nested \cup Special
    \cup {MyStruct, Nums}

\* the sinks: a Vec, or a fixed-size buffer of 0..MaxCap bytes
Sinks == {new(FALSE, 0)} \cup {new(TRUE, c) : c \in 0..MaxCap}

(* ------------------------------------------------------------------ *)
(* State                                                               *)
(* ------------------------------------------------------------------ *)

VARIABLES
    sers,    \* the Serializers alive: sers[1] is the caller's, the others are the
             \* key_as_logfmt of the serialize_key calls in progress
    frames,  \* the value.serialize calls in progress, innermost last
    ret,     \* the Result just returned to the innermost call, "None" if none
    pc,      \* "ready", "running", "returned" or "panic"
    docs,    \* documents started
    val,     \* the value the caller serializes
    last,    \* history: the operation that ran last, the Serializer it ran on (its
             \* index and what it was before) and the value it was given
    mark,    \* history: the length of the caller's sink when the document began
    lines    \* history: the next() calls that succeeded

vars == <<sers, frames, ret, pc, docs, val, last, mark, lines>>

op == last.op
pre == last.pre
arg == last.arg
\* the Serializer the last operation ran on, as it is now
post == sers[last.at]
\* the caller's sink, and what the current document has put into it
w == sers[1].w
doc == SubSeq(w, mark + 1, Len(w))

\* a value.serialize(serializer) call on Serializer lvl, not yet dispatched
Frame(v, lvl) ==
    [v |-> v, st |-> "call", i |-> 0, idx |-> 0, lvl |-> lvl, ns0 |-> <<>>]

top == frames[Len(frames)]
cur == sers[top.lvl]
Pop == SubSeq(frames, 1, Len(frames) - 1)
SetTop(f) == [frames EXCEPT ![Len(frames)] = f]
Dispatch(kind) == frames # <<>> /\ ret = "None" /\ top.st = "call" /\ top.v.k = kind
Child == Children(top.v)[top.i + 1]
\* the operation name ran on the Serializer the innermost call uses
Did(name) ==
    last' = [op |-> name, at |-> top.lvl, pre |-> cur, arg |-> top.v]
\* the caller ran name on its Serializer
CallerDid(name) ==
    last' = [op |-> name, at |-> 1, pre |-> sers[1], arg |-> val]

\* to_string / to_bytes / to_writer: Serializer::new
Init ==
    /\ sers \in {<<s>> : s \in Sinks}
    /\ val \in Docs
    /\ frames = <<>>
    /\ ret = "None"
    /\ pc = "ready"
    /\ docs = 0
    /\ last = [op |-> "new", at |-> 1, pre |-> sers[1], arg |-> val]
    /\ mark = 0
    /\ lines = 0

\* obj.serialize(&mut serializer)
Serialize ==
    /\ pc = "ready"
    /\ docs < MaxDocs
    /\ frames' = <<Frame(val, 1)>>
    /\ pc' = "running"
    /\ docs' = docs + 1
    /\ mark' = Len(w)
    /\ CallerDid("serialize")
    /\ UNCHANGED <<sers, ret, val, lines>>

\* a handler without callbacks: it runs on cur and returns r to the caller
Leaf(name, o) ==
    /\ sers' = [sers EXCEPT ![top.lvl] = o.s]
    /\ frames' = Pop
    /\ ret' = o.r
    /\ Did(name)
    /\ UNCHANGED <<pc, docs, val, mark, lines>>

SerializeBool == Dispatch("bool") /\ Leaf("serialize_bool", serialize_bool(cur, top.v.b))
SerializeInt == Dispatch("int") /\ Leaf("serialize_i64", serialize_i64(cur, top.v.n))
SerializeStr == Dispatch("str") /\ Leaf("serialize_str", serialize_str(cur, top.v.s))
SerializeNone == Dispatch("none") /\ Leaf("serialize_none", serialize_none(cur))
SerializeUnit == Dispatch("unit") /\ Leaf("serialize_unit", serialize_unit(cur))
SerializeUnitVariant ==
    /\ Dispatch("unit_variant")
    /\ Leaf("serialize_unit_variant",
            serialize_unit_variant(cur, top.v.name, top.v.variant))
\* the Serialize implementation fails: Err(Error::custom(msg))
SerializeCustomError == Dispatch("error") /\ Leaf("custom", Out(cur, "SerializeError"))

\* mutant of SerializeNewtype: the variant tag becomes a namespace segment
SerializeNewtype_enters_variant ==
    /\ Dispatch("newtype")
    /\ sers' = [sers EXCEPT ![top.lvl] = enter_ns(cur, <<86>>)]
    /\ frames' = SetTop([top EXCEPT !.v = top.v.inner])
    /\ Did("serialize_" \o top.v.via)
    /\ UNCHANGED <<ret, pc, docs, val, mark, lines>>

\* serialize_some, serialize_newtype_struct, serialize_newtype_variant:
\* value.serialize(self)
SerializeNewtype ==
    /\ Dispatch("newtype")
    /\ frames' = SetTop([top EXCEPT !.v = top.v.inner])
    /\ Did("serialize_" \o top.v.via)
    /\ UNCHANGED <<sers, ret, pc, docs, val, mark, lines>>

\* serialize_seq, serialize_tuple, serialize_tuple_struct, serialize_tuple_variant
\* (LogfmtSeqSerializer { s: self, idx: 0 }), serialize_map, serialize_struct,
\* serialize_struct_variant (self)
Open(kind) ==
    /\ Dispatch(kind)
    /\ frames' = SetTop([top EXCEPT !.st = "open", !.idx = 0, !.ns0 = cur.ns])
    /\ Did("serialize_" \o kind)
    /\ UNCHANGED <<sers, ret, pc, docs, val, mark, lines>>
SerializeSeq == Open("seq")
SerializeStruct == Open("struct")
SerializeMap == Open("map")

\* the caller has a next child to hand to the open container
More(kind) ==
    /\ frames # <<>> /\ ret = "None" /\ top.st = "open" /\ top.v.k = kind
    /\ top.i < Len(Children(top.v))
\* the call made for a child has returned to the container operation waiting in st
Back(kind, st) ==
    frames # <<>> /\ ret # "None" /\ top.st = st /\ top.v.k = kind

\* enter_ns(name), then value.serialize(..) on the same Serializer
Visit(name, st, seg, v) ==
    /\ sers' = [sers EXCEPT ![top.lvl] = enter_ns(cur, seg)]
    /\ frames' = Append(SetTop([top EXCEPT !.st = st, !.ns0 = cur.ns]),
                        Frame(v, top.lvl))
    /\ Did(name)
    /\ UNCHANGED <<ret, pc, docs, val, mark, lines>>

\* leave_ns() panics
Panic(name) ==
    /\ pc' = "panic"
    /\ frames' = <<>>
    /\ ret' = "None"
    /\ Did(name)
    /\ UNCHANGED <<sers, docs, val, mark, lines>>

\* mutant of Leave: the error path returns without leave_ns()
Leave_keeps_segment_on_error(name, bump) ==
    /\ IF ret = "Ok"
       THEN /\ sers' = [sers EXCEPT ![top.lvl] = leave_ns(cur)]
            /\ frames' = SetTop([top EXCEPT !.st = "open", !.i = @ + 1,
                                            !.idx = @ + bump])
            /\ ret' = "None"
       ELSE /\ sers' = sers
            /\ frames' = Pop
            /\ ret' = ret
    /\ Did(name)
    /\ UNCHANGED <<pc, docs, val, mark, lines>>

\* mutant of Leave: the error of the child is dropped and the container goes on
Leave_swallows_error(name, bump) ==
    /\ sers' = [sers EXCEPT ![top.lvl] = leave_ns(cur)]
    /\ frames' = SetTop([top EXCEPT !.st = "open", !.i = @ + 1, !.idx = @ + bump])
    /\ ret' = "None"
    /\ Did(name)
    /\ UNCHANGED <<pc, docs, val, mark, lines>>

\* `if let Err(e) = .. { self.leave_ns(); return Err(e); } self.leave_ns(); Ok(())`
\* and, on Err, the `?` of the caller that drove the container; bump is what a
\* success adds to idx
Leave(name, bump) ==
    IF cur.ns = <<>> THEN Panic(name)
    ELSE
        /\ sers' = [sers EXCEPT ![top.lvl] = leave_ns(cur)]
        /\ IF ret = "Ok"
           THEN /\ frames' = SetTop([top EXCEPT !.st = "open", !.i = @ + 1,
                                                !.idx = @ + bump])
                /\ ret' = "None"
           ELSE /\ frames' = Pop
                /\ ret' = ret
        /\ Did(name)
        /\ UNCHANGED <<pc, docs, val, mark, lines>>

\* LogfmtSeqSerializer::serialize_element_internal, up to value.serialize
SerializeElement ==
    /\ More("seq")
    /\ Visit("serialize_element", "elem", itoa(top.idx), Child)
\* mutant of ElementReturn: `self.idx += 1` is missing
ElementReturn_keeps_idx == Back("seq", "elem") /\ Leave("element_return", 0)

\* LogfmtSeqSerializer::serialize_element_internal, from value.serialize's return
ElementReturn == Back("seq", "elem") /\ Leave("element_return", 1)

\* SerializeStruct::serialize_field, SerializeStructVariant::serialize_field
SerializeField ==
    /\ More("struct")
    /\ ~Child.skip
    /\ Visit("serialize_field", "field", Child.key, Child.value)
FieldReturn == Back("struct", "field") /\ Leave("field_return", 0)

\* SerializeStruct::skip_field
SkipField ==
    /\ More("struct")
    /\ Child.skip
    /\ frames' = SetTop([top EXCEPT !.i = @ + 1])
    /\ Did("skip_field")
    /\ UNCHANGED <<sers, ret, pc, docs, val, mark, lines>>

\* mutant of SerializeKey: the key is encoded with the state of the outer Serializer
SerializeKey_shares_state ==
    /\ More("map")
    /\ sers' = Append(sers, [new(FALSE, 0) EXCEPT !.ns = cur.ns,
                                                  !.have_written = cur.have_written])
    /\ frames' = Append(SetTop([top EXCEPT !.st = "key", !.ns0 = cur.ns]),
                        Frame(Child.key, Len(sers) + 1))
    /\ Did("serialize_key")
    /\ UNCHANGED <<ret, pc, docs, val, mark, lines>>

\* SerializeMap::serialize_key, up to key.serialize(&mut key_as_logfmt)
SerializeKey ==
    /\ More("map")
    /\ sers' = Append(sers, new(FALSE, 0))
    /\ frames' = Append(SetTop([top EXCEPT !.st = "key", !.ns0 = cur.ns]),
                        Frame(Child.key, Len(sers) + 1))
    /\ Did("serialize_key")
    /\ UNCHANGED <<ret, pc, docs, val, mark, lines>>

\* mutant of KeyReturn: the key is not pushed, as when serialize_value is called
\* without a serialize_key before it
KeyReturn_without_enter_ns ==
    /\ Back("map", "key")
    /\ sers' = SubSeq(sers, 1, Len(sers) - 1)
    /\ IF ret = "Ok"
       THEN /\ frames' = SetTop([top EXCEPT !.st = "keyed"])
            /\ ret' = "None"
       ELSE /\ frames' = Pop
            /\ ret' = ret
    /\ Did("key_return")
    /\ UNCHANGED <<pc, docs, val, mark, lines>>

\* SerializeMap::serialize_key, from key.serialize's return: `?`, then
\* enter_ns(from_utf8_unchecked(key_as_logfmt.w))
KeyReturn ==
    /\ Back("map", "key")
    /\ LET outer == SubSeq(sers, 1, Len(sers) - 1)
           k == from_utf8_unchecked(sers[Len(sers)].w)
       IN  IF ret = "Ok"
           THEN /\ sers' = [outer EXCEPT ![top.lvl] = enter_ns(@, k)]
                /\ frames' = SetTop([top EXCEPT !.st = "keyed"])
                /\ ret' = "None"
           ELSE /\ sers' = outer
                /\ frames' = Pop
                /\ ret' = ret
    /\ Did("key_return")
    /\ UNCHANGED <<pc, docs, val, mark, lines>>

\* SerializeMap::serialize_value, up to value.serialize
SerializeValue ==
    /\ frames # <<>> /\ ret = "None" /\ top.st = "keyed"
    /\ frames' = Append(SetTop([top EXCEPT !.st = "value"]), Frame(Child.value, top.lvl))
    /\ Did("serialize_value")
    /\ UNCHANGED <<sers, ret, pc, docs, val, mark, lines>>
\* SerializeMap::serialize_value, from value.serialize's return
ValueReturn == Back("map", "value") /\ Leave("value_return", 0)

\* SerializeSeq::end, SerializeStruct::end, SerializeMap::end (and the other four)
End ==
    /\ frames # <<>> /\ ret = "None" /\ top.st = "open"
    /\ top.i = Len(Children(top.v))
    /\ frames' = Pop
    /\ ret' = "Ok"
    /\ Did("end")
    /\ UNCHANGED <<sers, pc, docs, val, mark, lines>>

\* obj.serialize(&mut serializer) returns to the caller
Return ==
    /\ pc = "running" /\ frames = <<>> /\ ret # "None"
    /\ pc' = "returned"
    /\ CallerDid("return")
    /\ UNCHANGED <<sers, frames, ret, docs, val, mark, lines>>

\* serializer.next(), between documents
CallNext ==
    /\ pc = "returned"
    /\ LET o == next(sers[1])
       IN  /\ sers' = <<o.s>>
           /\ pc' = IF o.r = "Ok" THEN "ready" ELSE "returned"
           /\ ret' = IF o.r = "Ok" THEN "None" ELSE o.r
           /\ lines' = IF o.r = "Ok" THEN lines + 1 ELSE lines
    /\ CallerDid("next")
    /\ UNCHANGED <<frames, docs, val, mark>>

\* serializer.reset(), between documents
CallReset ==
    /\ pc = "returned"
    /\ sers' = <<reset(sers[1])>>
    /\ pc' = "ready"
    /\ ret' = "None"
    /\ CallerDid("reset")
    /\ UNCHANGED <<frames, docs, val, mark, lines>>

Next ==
    \/ Serialize \/ Return \/ CallNext \/ CallReset
    \/ SerializeBool \/ SerializeInt \/ SerializeStr \/ SerializeNone
    \/ SerializeUnit \/ SerializeUnitVariant \/ SerializeCustomError
    \/ SerializeNewtype
    \/ SerializeSeq \/ SerializeElement \/ ElementReturn
    \/ SerializeStruct \/ SerializeField \/ FieldReturn \/ SkipField
    \/ SerializeMap \/ SerializeKey \/ KeyReturn \/ SerializeValue \/ ValueReturn
    \/ End

Spec == Init /\ [][Next]_vars

(* ------------------------------------------------------------------ *)
(* The text harness: write_ident and write_val on their own, as         *)
(* tests::test_write_ident and tests::test_write_val call them          *)
(* ------------------------------------------------------------------ *)

\* NUL, SOH, tab, newline, CR, space, quote, `0`, `=`, backslash, `a`, `n`, `r`,
\* `t`, `u`, `x`, DEL, U+0085 (a control of two bytes), e-acute, the euro sign,
\* U+1F600
Alphabet ==
    {0, 1, 9, 10, 13, 32, 34, 48, 61, 92, 97, 110, 114, 116, 117, 120, 127, 133,
     233, 8364, 128512}
Texts == UpTo(Alphabet, MaxLen)

InitText ==
    /\ sers = <<new(FALSE, 0)>>
    /\ val \in {VStr(s) : s \in Texts}
    /\ frames = <<>>
    /\ ret = "None"
    /\ pc = "ready"
    /\ docs = 0
    /\ last = [op |-> "new", at |-> 1, pre |-> sers[1], arg |-> val]
    /\ mark = 0
    /\ lines = 0

Tried(name, o) ==
    /\ pc = "ready"
    /\ sers' = <<o.s>>
    /\ ret' = o.r
    /\ pc' = "returned"
    /\ CallerDid(name)
    /\ UNCHANGED <<frames, docs, val, mark, lines>>

\* try_ident: Serializer::write_ident(&mut v, s)
TryIdent == Tried("write_ident", write_ident(sers[1], val.s))
\* try_val: ser.write_val(s)
TryVal == Tried("write_val", write_val(sers[1], val.s))

NextText == TryIdent \/ TryVal

SpecText == InitText /\ [][NextText]_vars

(* ------------------------------------------------------------------ *)
(* What the claims speak of                                            *)
(* ------------------------------------------------------------------ *)

\* identifier-valid: greater than space, not `=`, not `"`, not a control character
RefValid(c) == c > 32 /\ c # 61 /\ c # 34 /\ ~(c <= 31 \/ (c >= 127 /\ c <= 159))
AllRefValid(s) == \A i \in 1..Len(s) : RefValid(s[i])
\* the uppercase hex digits
HexU == <<48, 49, 50, 51, 52, 53, 54, 55, 56, 57, 65, 66, 67, 68, 69, 70>>
\* `%` and two uppercase hex digits for each byte
RECURSIVE RefPercent(_)
RefPercent(bs) ==
    IF bs = <<>> THEN <<>>
    ELSE <<37, HexU[(Head(bs) \div 16) + 1], HexU[(Head(bs) % 16) + 1]>>
            \o RefPercent(Tail(bs))
\* the reference of the Identifier Encoder: character by character
RECURSIVE RefIdent(_)
RefIdent(s) ==
    IF s = <<>> THEN <<>>
    ELSE (IF RefValid(Head(s)) THEN encode_utf8(Head(s))
          ELSE RefPercent(encode_utf8(Head(s)))) \o RefIdent(Tail(s))
\* the dot-joined key of a namespace path
RECURSIVE RefKey(_)
RefKey(path) ==
    IF path = <<>> THEN <<>>
    ELSE IF Len(path) = 1 THEN RefIdent(path[1])
    ELSE RefIdent(path[1]) \o <<46>> \o RefKey(Tail(path))
\* the separator a token gets in a Serializer in state s
RefSep(s) == IF s.have_written THEN <<32>> ELSE <<>>
\* a forbidden character of a quoted value and its escaped form
RefForbidden(c) == c <= 31 \/ c = 34 \/ c = 92 \/ c = 127
RefEscaped(c) ==
    CASE c = 0 -> <<92, 48>>
      [] c = 10 -> <<92, 110>>
      [] c = 9 -> <<92, 116>>
      [] c = 13 -> <<92, 114>>
      [] c = 92 -> <<92, 92>>
      [] c = 34 -> <<92, 34>>
      [] c = 127 -> encode_utf8(9249)
      [] OTHER -> encode_utf8(9216 + c)
\* the reference of the quoted content: left to right, an already escaped pair first
RECURSIVE RefQuoted(_)
RefQuoted(s) ==
    IF s = <<>> THEN <<>>
    ELSE IF Head(s) = 92 /\ Len(s) >= 2 /\ s[2] \in {110, 48, 116, 114, 92, 34, 120, 117}
    THEN <<92, s[2]>> \o RefQuoted(SubSeq(s, 3, Len(s)))
    ELSE IF RefForbidden(Head(s)) THEN RefEscaped(Head(s)) \o RefQuoted(Tail(s))
    ELSE encode_utf8(Head(s)) \o RefQuoted(Tail(s))

IsPrefix(a, b) == Len(a) <= Len(b) /\ SubSeq(b, 1, Len(a)) = a
\* what the last operation appended to the sink of its Serializer
delta == SubSeq(post.w, Len(pre.w) + 1, Len(post.w))
Waiting == {"elem", "field", "value"}
ReturnOps == {"element_return", "field_return", "value_return", "key_return"}
\* the handlers that call write_key
KeyOps ==
    {"serialize_bool", "serialize_i64", "serialize_str", "serialize_none",
     "serialize_unit", "serialize_unit_variant"}
\* the last operation was one that emits a token, and it succeeded
TokenWritten ==
    /\ op \in KeyOps
    /\ op = "serialize_bool" => arg.b
    /\ ret = "Ok"
\* the container operations, which emit no token themselves
ContainerOps ==
    {"serialize_seq", "serialize_struct", "serialize_map", "serialize_element",
     "serialize_field", "skip_field", "serialize_key", "serialize_value", "end"}
    \cup ReturnOps
NoTwoSpaces(b) == \A i \in 1..(Len(b) - 1) : ~(b[i] = 32 /\ b[i + 1] = 32)

(* ------------------------------------------------------------------ *)
(* The claims                                                          *)
(* ------------------------------------------------------------------ *)

\* C1: every child visit of a container leaves the namespace stack as it found it,
\* on success and on failure. When a call returns (ret is set), the stack of the
\* Serializer it ran on is what it was when the call was made: empty for the encode
\* call itself and for a nested key pass, the stack before the visit plus the
\* visit's own segment for a child; and once the container operation has returned
\* too (the container is open again) the stack is the one from before the visit.
C1_StackBalanced ==
    /\ frames = <<>> => sers[1].ns = <<>>
    /\ frames # <<>> /\ ret # "None" /\ top.st = "key" => sers[Len(sers)].ns = <<>>
    /\ frames # <<>> /\ ret # "None" /\ top.st \in Waiting =>
          /\ Len(cur.ns) = Len(top.ns0) + 1
          /\ SubSeq(cur.ns, 1, Len(top.ns0)) = top.ns0
    /\ frames # <<>> /\ top.st = "open" => cur.ns = top.ns0
\* a child visit inside a nested container has failed and returned to the outer one
C1_Witness ==
    /\ frames # <<>> /\ top.st \in Waiting
    /\ op \in ReturnOps
    /\ ret \notin {"None", "Ok"}
    /\ Len(cur.ns) = Len(top.ns0) + 1

\* C2: after n rounds of (serialize; next()) on a new Serializer the sink holds n
\* copies of one line, the line ends with its only newline, and the Serializer is
\* as new (empty stack, have_written false).
C2_Streaming ==
    (pc = "ready" /\ op = "next" /\ lines = docs) =>
        LET n == docs
            L == Len(w) \div n
        IN  /\ sers[1].ns = <<>> /\ ~sers[1].have_written
            /\ L >= 1 /\ Len(w) = n * L
            /\ w = pre.w \o <<10>>
            /\ \A j \in 1..n : SubSeq(w, (j - 1) * L + 1, j * L) = SubSeq(w, 1, L)
            /\ \A i \in 1..L : (w[i] = 10) <=> (i = L)
\* two rounds of a document of several tokens
C2_Witness ==
    /\ pc = "ready" /\ op = "next" /\ lines = docs /\ docs >= 2
    /\ val = MyStruct
    /\ Len(w) > 20

\* C3: a token gets exactly one space before it when it is not the first of its
\* document and none when it is; what emits no token (false, the container
\* operations, a skipped field) writes nothing; so a document that was encoded with
\* success does not start or end with a space and has no two spaces in a row (no
\* text of Docs has two spaces in a row, so two such spaces would be separators).
C3_Separators ==
    /\ TokenWritten =>
          IF pre.have_written
          THEN /\ Len(delta) >= 2
               /\ delta[1] = 32 /\ delta[2] # 32 /\ delta[Len(delta)] # 32
          ELSE delta = <<>> \/ (delta[1] # 32 /\ delta[Len(delta)] # 32)
    /\ (op \in ContainerOps \/ (op = "serialize_bool" /\ ~arg.b)) =>
          /\ post.w = pre.w
          /\ post.have_written = pre.have_written
    /\ (pc = "returned" /\ ret = "Ok") =>
          \/ doc = <<>>
          \/ doc[1] # 32 /\ doc[Len(doc)] # 32 /\ NoTwoSpaces(doc)
\* the second document of a Serializer, with tokens before and after a false
C3_Witness ==
    /\ pc = "returned" /\ ret = "Ok" /\ docs = 2
    /\ val = VSeq(<<VBool(TRUE), VBool(FALSE)>>) \/ val = MyStruct
    /\ doc # <<>>

\* C4: have_written is false in a new Serializer and after reset() and a successful
\* next(); only a handler that calls write_key makes it true; and no operation but
\* reset() and next() makes it false again.
C4_HaveWritten ==
    /\ ~sers[1].have_written
    /\ [][/\ \A l \in 1..Len(sers') : l > Len(sers) => ~sers'[l].have_written
          /\ \A l \in 1..Len(sers) : l <= Len(sers') =>
                /\ (sers[l].have_written /\ op' \notin {"reset", "next"})
                      => sers'[l].have_written
                /\ (~sers[l].have_written /\ sers'[l].have_written)
                      => (op' \in KeyOps /\ last'.at = l)
          /\ (op' = "reset" \/ (op' = "next" /\ pc' = "ready"))
                => ~sers'[1].have_written]_vars
\* a write has failed inside a container and the container was left: the flag is
\* still true
C4_Witness ==
    /\ op \in ReturnOps /\ ret = "WriteError"
    /\ sers[1].have_written /\ w # <<>>

\* C5: while an error is on its way up, every operation returns that same error and
\* no sink gets a byte; and no operation at all removes or rewrites a byte of a sink.
C5_FailureKeepsBytes ==
    [][/\ (pc = "running" /\ ret \notin {"None", "Ok"}) =>
              /\ ret' = ret
              /\ \A l \in 1..Len(sers') : sers'[l].w = sers[l].w
       /\ \A l \in 1..Len(sers) : l <= Len(sers') => IsPrefix(sers[l].w, sers'[l].w)]_vars
\* a container operation has returned the error of its child, with bytes in the sink
C5_Witness ==
    /\ op \in ReturnOps /\ pc = "running"
    /\ ret \notin {"None", "Ok"}
    /\ w # <<>>

\* C6 as claimed: a unit under a non-empty namespace path emits the key only, with
\* no `=` after it.
C6_UnitKeyOnly ==
    (op = "serialize_unit" /\ ret = "Ok" /\ pre.ns # <<>>) =>
        post.w = pre.w \o RefSep(pre) \o RefKey(pre.ns)
\* C6 as amended: a unit under a non-empty namespace path emits the key and `=`,
\* with no value after it.
C6_UnitKeyEquals ==
    (op = "serialize_unit" /\ ret = "Ok" /\ pre.ns # <<>>) =>
        post.w = pre.w \o RefSep(pre) \o RefKey(pre.ns) \o <<61>>
\* a unit was encoded under a path of two segments, after another token
C6_Witness ==
    /\ op = "serialize_unit" /\ ret = "Ok"
    /\ pre.ns # <<>> /\ pre.have_written

\* C7: false writes nothing and leaves the Serializer as it was; true under a
\* non-empty namespace path writes the separator and the dot-joined key only.
C7_Bool ==
    /\ (op = "serialize_bool" /\ ~arg.b) => (ret = "Ok" /\ post = pre)
    /\ (op = "serialize_bool" /\ arg.b /\ ret = "Ok" /\ pre.ns # <<>>) =>
          post.w = pre.w \o RefSep(pre) \o RefKey(pre.ns)
\* false was encoded under a namespace path after a token had been written
C7_Witness ==
    /\ op = "serialize_bool" /\ ~arg.b
    /\ pre.ns # <<>> /\ pre.have_written

\* C8: write_ident fails with EmptyIdentifier on the empty text and writes nothing;
\* on any other text it writes, character by character, the character when it is
\* identifier-valid and `%XX` for each of its UTF-8 bytes when it is not; a text of
\* identifier-valid characters comes out unchanged.
C8_WriteIdent ==
    op = "write_ident" =>
        IF arg.s = <<>> THEN ret = "EmptyIdentifier" /\ w = <<>>
        ELSE /\ ret = "Ok"
             /\ w = RefIdent(arg.s)
             /\ AllRefValid(arg.s) => w = as_bytes(arg.s)
\* a text with a valid character between a control of two bytes and a space
C8_Witness ==
    /\ op = "write_ident"
    /\ arg.s = <<133, 97, 32>>

\* C9: write_val writes nothing for the empty text, the text itself for a text of
\* identifier-valid characters, and a text between two quotes for any other: the
\* output is quoted exactly when a character is not identifier-valid.
C9_BareOrQuoted ==
    op = "write_val" =>
        /\ ret = "Ok"
        /\ arg.s = <<>> => w = <<>>
        /\ (arg.s # <<>> /\ AllRefValid(arg.s)) => (w = as_bytes(arg.s) /\ w[1] # 34)
        /\ ~AllRefValid(arg.s) => (Len(w) >= 2 /\ w[1] = 34 /\ w[Len(w)] = 34)
\* a text with a space in it
C9_Witness ==
    /\ op = "write_val"
    /\ arg.s = <<97, 32, 97>>

\* C10: the quoted content is, left to right, a backslash pair copied as it is when
\* the backslash is followed by one of n 0 t r \ " x u, the escaped form of any
\* other forbidden character, and every other character as it is.
C10_QuotedContent ==
    (op = "write_val" /\ ~AllRefValid(arg.s)) =>
        w = <<34>> \o RefQuoted(arg.s) \o <<34>>
\* a newline, then a backslash pair
C10_Witness ==
    /\ op = "write_val"
    /\ arg.s = <<10, 92, 34>>

\* the Serializer the caller had when it started its first document
Fresh == new(sers[1].fixed, IF sers[1].fixed THEN sers[1].room + Len(w) ELSE 0)
\* the outcome of encoding one of the payloads directly on Serializer s
RefDirect(s, v) ==
    CASE v.k = "int" -> serialize_i64(s, v.n)
      [] v.k = "bool" -> serialize_bool(s, v.b)
      [] v.k = "error" -> Out(s, "SerializeError")
      [] v.k = "seq" ->
            LET o == serialize_i64(enter_ns(s, <<48>>), v.items[1].n)
            IN  Out(leave_ns(o.s), o.r)
\* the struct of Special with a newtype variant and a Some as its fields
EnumStruct ==
    VStruct(<<Field(TxtA, VNewtype("newtype_variant", VInt(7))),
              Field(TxtB, VNewtype("some", VStr(TxtAB)))>>)

\* C11: serialize_newtype_variant is the encoding of its payload on the same
\* Serializer: the step writes no byte, pushes no segment, leaves have_written and
\* the pending result alone and turns the call into the call of the payload; a
\* document that is a newtype variant ends as the direct encoding of its payload
\* ends; a field holding Variant(7) comes out as `a=7`.
C11_NewtypeVariant ==
    /\ [][op' = "serialize_newtype_variant" =>
              /\ sers' = sers
              /\ ret' = ret
              /\ frames' = [frames EXCEPT ![Len(frames)] =
                                Frame(last'.arg.inner, last'.at)]]_vars
    /\ []((op = "return" /\ docs = 1 /\ val.k = "newtype"
              /\ val.via = "newtype_variant") =>
             /\ sers[1] = RefDirect(Fresh, val.inner).s
             /\ ret = RefDirect(Fresh, val.inner).r)
    /\ []((op = "return" /\ docs = 1 /\ val = EnumStruct /\ ret = "Ok") =>
             doc = <<97, 61, 55, 32, 98, 61, 34, 97, 32, 98, 34>>)
\* a newtype variant around a sequence was encoded to the end
C11_Witness ==
    /\ op = "return" /\ docs = 1 /\ ret = "Ok"
    /\ val = VNewtype("newtype_variant", VSeq(<<VInt(7)>>))
    /\ w = <<48, 61, 55>>

\* the decimal text of a number below 100
RefDecimal(k) == IF k < 10 THEN <<48 + k>> ELSE <<48 + (k \div 10), 48 + (k % 10)>>
\* the container whose operation ran last, when that operation made a call
caller == frames[Len(frames) - 1]

\* C12: the segment pushed for an element is the decimal text of the number of
\* elements its own sequence has visited before it, whatever those elements wrote
\* and whatever the sequences around it have counted; a sequence of false and true
\* writes the index of the true element only.
C12_SeqIndex ==
    /\ op = "serialize_element" =>
          /\ post.ns = pre.ns \o <<RefDecimal(caller.i)>>
          /\ caller.i = 0 => post.ns[Len(post.ns)] = <<48>>
    /\ (op = "return" /\ docs = 1 /\ ret = "Ok"
            /\ val = VSeq(<<VBool(FALSE), VBool(TRUE)>>)) => doc = <<49>>
    /\ (op = "return" /\ docs = 1 /\ ret = "Ok" /\ ~sers[1].fixed
            /\ val = VSeq(<<VSeq(<<VBool(TRUE), VBool(FALSE)>>),
                            VSeq(<<VBool(TRUE), VBool(FALSE)>>)>>)) =>
          doc = <<48, 46, 48, 32, 49, 46, 48>>
\* the eleventh element of a sequence, after elements that emitted no token
C12_Witness ==
    /\ op = "serialize_element"
    /\ val = Nums
    /\ post.ns = << <<49, 48>> >>

\* C13: serialize_key encodes the key on a Serializer of its own, new and with a
\* buffer that cannot fail; while that pass runs no outer Serializer changes; when
\* it succeeds the segment pushed is the whole output of the pass and the outer sink
\* and have_written are as before; when it fails nothing is pushed and its error is
\* returned; and the segment goes through the Identifier Encoder when a key path is
\* written, so the quotes, spaces and `=` of a flattened key come out as %22, %20
\* and %3D.
C13_MapKey ==
    /\ [](op = "serialize_key" =>
             /\ sers[Len(sers)] = new(FALSE, 0)
             /\ top.lvl = Len(sers) /\ last.at < Len(sers)
             /\ post = pre)
    /\ [][\A l \in 1..Len(sers) :
             (l < Len(sers) /\ Len(sers') >= Len(sers)) => sers'[l] = sers[l]]_vars
    /\ [][op' = "key_return" =>
             LET n == Len(sers)
                 at == last'.at
             IN  /\ Len(sers') = n - 1
                 /\ \A l \in 1..(n - 1) : l # at => sers'[l] = sers[l]
                 /\ sers'[at].w = sers[at].w
                 /\ sers'[at].have_written = sers[at].have_written
                 /\ IF ret = "Ok"
                    THEN /\ Len(sers'[at].ns) = Len(sers[at].ns) + 1
                         /\ SubSeq(sers'[at].ns, 1, Len(sers[at].ns)) = sers[at].ns
                         /\ as_bytes(sers'[at].ns[Len(sers'[at].ns)]) = sers[n].w
                         /\ ret' = "None"
                    ELSE /\ sers'[at] = sers[at]
                         /\ ret' = ret
                         /\ Len(frames') = Len(frames) - 1]_vars
    /\ []((op = "serialize_i64" /\ ret = "Ok" /\ pre.ns # <<>>) =>
             IsPrefix(pre.w \o RefSep(pre) \o RefKey(pre.ns) \o <<61>>, post.w))
    /\ []((op = "return" /\ docs = 1 /\ ret = "Ok"
              /\ val = VMap(<<Entry(VSeq(<<VInt(7)>>), VInt(7))>>)) =>
             doc = <<48, 37, 51, 68, 55, 61, 55>>)
    /\ []((op = "return" /\ docs = 1 /\ ret = "Ok"
              /\ val = VMap(<<Entry(VStr(TxtAB), VUnit)>>)) =>
             doc = <<37, 50, 50, 97, 37, 50, 48, 98, 37, 50, 50, 61>>)
\* the pass of a key that flattens to a quoted text has returned with success
C13_Witness ==
    /\ op = "key_return" /\ ret = "None"
    /\ post.w = pre.w
    /\ post.ns = Append(pre.ns, <<34, 97, 32, 98, 34>>)

\* the container operations that call leave_ns
LeaveOps == {"element_return", "field_return", "value_return"}

\* C14: leave_ns never panics: no run ends in the panic, whenever a child has
\* returned to a container operation that is about to call leave_ns the stack holds
\* a segment, and every leave_ns that was called found one, on the Ok path and on
\* the Err path.
C14_NoPanic ==
    /\ pc # "panic"
    /\ (frames # <<>> /\ ret # "None" /\ top.st \in Waiting) => Len(cur.ns) >= 1
    /\ op \in LeaveOps => (Len(pre.ns) >= 1 /\ Len(post.ns) = Len(pre.ns) - 1)
\* leave_ns was called on the Err path of a map value with one segment on the stack
C14_Witness ==
    /\ op = "value_return"
    /\ ret \notin {"None", "Ok"}
    /\ Len(pre.ns) = 1 /\ post.ns = <<>>

\* a namespace path with a segment of zero length
HasEmpty(path) == \E i \in 1..Len(path) : path[i] = <<>>
\* the segments before the first empty one, each with the dot after it
RECURSIVE RefEarlier(_)
RefEarlier(path) ==
    IF path = <<>> \/ Head(path) = <<>> THEN <<>>
    ELSE RefIdent(Head(path)) \o <<46>> \o RefEarlier(Tail(path))
\* the last operation was a handler that writes a token (it calls write_key)
TokenAttempt == op \in KeyOps /\ (op = "serialize_bool" => arg.b)

\* C15: a handler that writes a token fails with EmptyIdentifier exactly when a
\* segment of zero length is on its stack (on a sink that takes every byte; on one
\* that fails, the failure of an earlier write comes first as WriteError); by then
\* the separator and the segments before the empty one are written and have_written
\* is true; no other operation brings up EmptyIdentifier, it only hands it on; an
\* empty segment over a value that emits no token costs nothing.
C15_EmptySegment ==
    /\ [](TokenAttempt =>
             /\ HasEmpty(pre.ns) =>
                   /\ ret \in {"EmptyIdentifier", "WriteError"}
                   /\ ~pre.fixed => ret = "EmptyIdentifier"
             /\ ~HasEmpty(pre.ns) => ret # "EmptyIdentifier"
             /\ ret = "EmptyIdentifier" =>
                   /\ post.w = pre.w \o RefSep(pre) \o RefEarlier(pre.ns)
                   /\ post.have_written
                   /\ post.ns = pre.ns)
    /\ [][(ret' = "EmptyIdentifier" /\ ret # "EmptyIdentifier") =>
              (op' \in KeyOps /\ HasEmpty(last'.pre.ns))]_vars
    /\ []((op = "return" /\ docs = 1 /\ ~sers[1].fixed) =>
             /\ val = VStruct(<<Field(<<>>, VBool(TRUE))>>) =>
                   (ret = "EmptyIdentifier" /\ w = <<>> /\ sers[1].have_written)
             /\ val = VStruct(<<Field(<<>>, VBool(FALSE))>>) => (ret = "Ok" /\ w = <<>>)
             /\ val = VMap(<<Entry(VBool(TRUE), VInt(7))>>) => ret = "EmptyIdentifier"
             /\ val = VMap(<<Entry(VSeq(<<>>), VInt(7))>>) => ret = "EmptyIdentifier"
             /\ val = VMap(<<Entry(VStr(<<>>), VInt(7))>>) => ret = "EmptyIdentifier"
             /\ val = VMap(<<Entry(VStr(<<>>), VBool(FALSE))>>) =>
                   (ret = "Ok" /\ w = <<>>))
\* a token under the path a.(empty), after another token: ` a.` is written
C15_Witness ==
    /\ TokenAttempt /\ ret = "EmptyIdentifier"
    /\ pre.have_written
    /\ pre.ns = <<TxtA, <<>>>>
    /\ post.w = pre.w \o <<32, 97, 46>>

\* the output of write_val without its two quotes when it has them (an unquoted
\* output holds no quote at all)
Unquoted(b) ==
    IF Len(b) >= 2 /\ b[1] = 34 /\ b[Len(b)] = 34 THEN SubSeq(b, 2, Len(b) - 1) ELSE b
\* E(s): what write_val writes for the text s on a new Serializer, as a text
E(s) == from_utf8_unchecked(Unquoted(write_val(new(FALSE, 0), s).s.w))

\* C16: E(E(s)) = E(s) for the text s that write_val was given: the text it wrote,
\* given to write_val again, comes out as it went in.
C16_EscapeIdempotent ==
    op = "write_val" =>
        /\ ret = "Ok"
        /\ as_bytes(E(arg.s)) = Unquoted(w)
        /\ write_val(new(FALSE, 0), E(arg.s)).r = "Ok"
        /\ E(E(arg.s)) = E(arg.s)
\* a backslash before a newline: both are escaped, and the four characters written
\* are two pairs the second time
C16_Witness ==
    /\ op = "write_val"
    /\ arg.s = <<92, 10, 32>>
    /\ w = <<34, 92, 92, 92, 110, 32, 34>>

====
